---- MODULE Spec2Model ----
\* Layered configuration reload chain (Config, DatabaseConfig, MessageOfTheDay)
\* of configdecorator: src/main.go (Reload, default-filling build) and the
\* accessor build (GetHost/GetPort/GetDBAddress/GetDBPort).
EXTENDS Integers, Sequences, FiniteSets, TLC

VARIABLES
    env,        \* process environment: a function from the names that are set to their values
    objs,       \* the three objects of main: config, dbConfig, motdConfig (fields and delegate)
    stack,      \* call stack of the Reload in progress, outermost frame first
    out,        \* events of the current top-level Reload: lines printed and field updates
    rets,       \* what each layer's Reload returned in the current top-level call
    result,     \* what the last finished top-level Reload returned to its caller
    target,     \* the layer the caller invoked Reload on
    pre,        \* objs and env when the current top-level Reload was called
    prev,       \* objs, target and result when the previous top-level Reload had finished
    calls,      \* number of top-level Reload calls made so far
    panicked,   \* the process died of a nil dereference
    heap,       \* accessor build: the objects constructed so far
    ctor,       \* accessor build: the constructor call that made each object
    got         \* accessor build: the last accessor call and what it returned

vars == <<env, objs, stack, out, rets, result, target, pre, prev, calls, panicked, heap, ctor, got>>

reloadVars == <<env, objs, stack, out, rets, result, target, pre, prev, calls, panicked>>
accessorVars == <<heap, ctor, got>>

-----------------------------------------------------------------------------
\* Bounds

\* number of constructor argument profiles tried
NumSeeds == 2
\* number of top-level Reload calls a run makes
MaxCalls == 2

-----------------------------------------------------------------------------
\* Values

\* the nil Configurer
Nil == "<nil Configurer>"
\* the nil error
NoErr == "<nil error>"
\* a layer's Reload has not returned in this call
NotReturned == "<not returned>"
\* a Configurer implemented elsewhere, whose Reload may fail
Other == "other"

EnvNames == {"ADDRESS", "PORT", "DB_ADDRESS", "DB_PORT", "MOTD"}

\* the non-empty value an environment variable is given when it is set
EnvValue(k) ==
    CASE k = "ADDRESS" -> "http://svc"
      [] k = "PORT" -> "9090"
      [] k = "DB_ADDRESS" -> "http://db"
      [] k = "DB_PORT" -> "5432"
      [] k = "MOTD" -> "Good Morning!"

\* every environment: each name unset, set to the empty string, or set to its value
Environments ==
    UNION { { e \in [S -> {"", "http://svc", "9090", "http://db", "5432", "Good Morning!"}] :
                \A k \in S : e[k] \in {"", EnvValue(k)} } : S \in SUBSET EnvNames }

\* errors the other Configurer may return
OtherErrs == {"other: reload failed"}

Layers == {"config", "dbConfig", "motdConfig"}
Decorators == {"dbConfig", "motdConfig"}

-----------------------------------------------------------------------------
\* os.Getenv: the value of the variable, "" when it is not set
Getenv(e, k) == IF k \in DOMAIN e THEN e[k] ELSE ""

\* Constructors
NewConfig(address, port) == [Address |-> address, Port |-> port]

NewDatabaseConfig(config, dbAddress, dbPort) ==
    [Configurer |-> config, DBAddress |-> dbAddress, DBPort |-> dbPort]

NewMessageOfTheDay(config, motd) == [Configurer |-> config, MOTD |-> motd]

\* Constructor arguments: profile 1 is main's, the others are alternatives
SeedArgs(s) ==
    CASE s = 1 -> [address |-> "http://webapp", port |-> "8080",
                   dbAddress |-> "http://mongodb", dbPort |-> "27017",
                   motd |-> "Hello, World!"]
      [] s = 2 -> [address |-> "", port |-> "", dbAddress |-> "", dbPort |-> "", motd |-> ""]
      [] OTHER -> [address |-> "http://old", port |-> "1", dbAddress |-> "http://olddb",
                   dbPort |-> "2", motd |-> "old"]

-----------------------------------------------------------------------------
\* The bodies of the three Reload methods, after the delegate has returned

\* Mutant: the fields are not assigned from the environment first, so a field
\* that already holds a value keeps it when its variable is empty
ConfigReloadKeepsOld(c, e) ==
    LET address == IF Getenv(e, "ADDRESS") = "" THEN c.Address ELSE Getenv(e, "ADDRESS")
        port == IF Getenv(e, "PORT") = "" THEN c.Port ELSE Getenv(e, "PORT")
    IN [c EXCEPT !.Address = IF address = "" THEN "http://localhost" ELSE address,
                 !.Port = IF port = "" THEN "8081" ELSE port]

\* Mutant: the default of Port is taken from the Address the object held on entry
ConfigReloadStalePort(c, e) ==
    LET address == Getenv(e, "ADDRESS")
        port == Getenv(e, "PORT")
    IN [c EXCEPT !.Address = IF address = "" THEN "http://localhost" ELSE address,
                 !.Port = IF port = "" THEN c.Address ELSE port]

\* Config.Reload: the fields of c after the call
ConfigReload(c, e) ==
    LET address == Getenv(e, "ADDRESS")
        port == Getenv(e, "PORT")
    IN [c EXCEPT !.Address = IF address = "" THEN "http://localhost" ELSE address,
                 !.Port = IF port = "" THEN "8081" ELSE port]

\* Mutant: the own fields are loaded before the delegate's error is looked at
DatabaseConfigReloadLoadsFirst(d, err, e) ==
    LET dbAddress == Getenv(e, "DB_ADDRESS")
        dbPort == Getenv(e, "DB_PORT")
    IN [obj |-> [d EXCEPT !.DBAddress = IF dbAddress = "" THEN "http://localhost" ELSE dbAddress,
                          !.DBPort = IF dbPort = "" THEN "37017" ELSE dbPort],
        err |-> err, wrote |-> TRUE]

\* Mutant: an empty DB_ADDRESS is reported as an error instead of defaulted
DatabaseConfigReloadFailsOnEmpty(d, err, e) ==
    IF err # NoErr
    THEN [obj |-> d, err |-> err, wrote |-> FALSE]
    ELSE IF Getenv(e, "DB_ADDRESS") = ""
    THEN [obj |-> d, err |-> "DB_ADDRESS environment variable is not set", wrote |-> FALSE]
    ELSE LET dbPort == Getenv(e, "DB_PORT")
         IN [obj |-> [d EXCEPT !.DBAddress = Getenv(e, "DB_ADDRESS"),
                               !.DBPort = IF dbPort = "" THEN "37017" ELSE dbPort],
             err |-> NoErr, wrote |-> TRUE]

\* DatabaseConfig.Reload once the delegate returned err: the fields of d and the error returned
DatabaseConfigReload(d, err, e) ==
    IF err # NoErr
    THEN [obj |-> d, err |-> err, wrote |-> FALSE]
    ELSE LET dbAddress == Getenv(e, "DB_ADDRESS")
             dbPort == Getenv(e, "DB_PORT")
         IN [obj |-> [d EXCEPT !.DBAddress = IF dbAddress = "" THEN "http://localhost" ELSE dbAddress,
                               !.DBPort = IF dbPort = "" THEN "37017" ELSE dbPort],
             err |-> NoErr, wrote |-> TRUE]

\* Mutant: the object is rebuilt from a fresh struct, which drops the delegate
MessageOfTheDayReloadFreshStruct(m, err, e) ==
    IF err # NoErr
    THEN [obj |-> m, err |-> err, wrote |-> FALSE]
    ELSE LET motd == Getenv(e, "MOTD")
         IN [obj |-> [Configurer |-> Nil,
                      MOTD |-> IF motd = "" THEN "Have a Nice Day!" ELSE motd],
             err |-> NoErr, wrote |-> TRUE]

\* MessageOfTheDay.Reload once the delegate returned err
MessageOfTheDayReload(m, err, e) ==
    IF err # NoErr
    THEN [obj |-> m, err |-> err, wrote |-> FALSE]
    ELSE LET motd == Getenv(e, "MOTD")
         IN [obj |-> [m EXCEPT !.MOTD = IF motd = "" THEN "Have a Nice Day!" ELSE motd],
             err |-> NoErr, wrote |-> TRUE]

\* Mutant: DatabaseConfig.Reload prints the line copied from Config.Reload
ReloadMessageCopied(o) ==
    CASE o = "config" -> "Reloading base config"
      [] o = "dbConfig" -> "Reloading base config"
      [] o = "motdConfig" -> "Reloading message of the day"

\* the line each Reload prints first
ReloadMessage(o) ==
    CASE o = "config" -> "Reloading base config"
      [] o = "dbConfig" -> "Reloading database config"
      [] o = "motdConfig" -> "Reloading message of the day"

-----------------------------------------------------------------------------
\* Call stack helpers

Frame(o) == [obj |-> o, pc |-> "print", err |-> NoErr]

Top == stack[Len(stack)]

AtTop(o, pc) == stack # <<>> /\ ~panicked /\ Top.obj = o /\ Top.pc = pc

SetTop(f) == [stack EXCEPT ![Len(stack)] = f]

Printed(o) == [ev |-> "print", arg |-> ReloadMessage(o)]
Wrote(o) == [ev |-> "write", arg |-> o]

\* the frame on top returns err to its caller: the frame below, or the caller of the chain
Return(o, err) ==
    /\ rets' = [rets EXCEPT ![o] = err]
    /\ IF Len(stack) = 1
       THEN /\ stack' = <<>>
            /\ result' = err
       ELSE /\ stack' = [SubSeq(stack, 1, Len(stack) - 1) EXCEPT
                            ![Len(stack) - 1] = [@ EXCEPT !.pc = "load", !.err = err]]
            /\ UNCHANGED result

\* Mutant: the decorator goes on to its own fields without reloading the delegate
CallDelegateSkipped(o) ==
    /\ stack' = SetTop([Top EXCEPT !.pc = "load"])
    /\ UNCHANGED panicked

\* the frame on top calls Reload on its embedded Configurer
CallDelegate(o) ==
    IF objs[o].Configurer = Nil
    THEN /\ panicked' = TRUE
         /\ UNCHANGED stack
    ELSE /\ stack' = Append(SetTop([Top EXCEPT !.pc = "wait"]), Frame(objs[o].Configurer))
         /\ UNCHANGED panicked

\* the chain of layers Reload on o walks, outermost first
RECURSIVE ChainOf(_)
ChainOf(o) ==
    IF o = Nil THEN <<>>
    ELSE IF o \in Decorators THEN <<o>> \o ChainOf(objs[o].Configurer)
    ELSE <<o>>

-----------------------------------------------------------------------------
\* main: the three objects over every environment, every constructor argument
\* profile and every delegate the constructors accept
InitReload ==
    /\ env \in Environments
    /\ \E s \in 1..NumSeeds, dbDelegate \in {"config", Other, Nil},
          motdDelegate \in {"dbConfig", "config", Other, Nil} :
          LET a == SeedArgs(s)
          IN objs = [config |-> NewConfig(a.address, a.port),
                     dbConfig |-> NewDatabaseConfig(dbDelegate, a.dbAddress, a.dbPort),
                     motdConfig |-> NewMessageOfTheDay(motdDelegate, a.motd)]
    /\ stack = <<>>
    /\ out = <<>>
    /\ rets = [o \in Layers \cup {Other} |-> NotReturned]
    /\ result = NotReturned
    /\ target = Nil
    /\ pre = [objs |-> objs, env |-> env]
    /\ prev = [objs |-> objs, target |-> Nil, result |-> NotReturned]
    /\ calls = 0
    /\ panicked = FALSE

\* accessor build: nothing constructed yet
InitAccessor ==
    /\ heap = <<>>
    /\ ctor = <<>>
    /\ got = [op |-> "none", obj |-> 0, host |-> "", port |-> 0, panic |-> FALSE]

Init == InitReload /\ InitAccessor

\* the caller invokes Reload on layer t
CallReload(t) ==
    /\ stack = <<>>
    /\ ~panicked
    /\ calls < MaxCalls
    /\ calls' = calls + 1
    /\ target' = t
    /\ pre' = [objs |-> objs, env |-> env]
    /\ prev' = [objs |-> objs, target |-> target, result |-> result]
    /\ stack' = <<Frame(t)>>
    /\ out' = <<>>
    /\ rets' = [o \in Layers \cup {Other} |-> NotReturned]
    /\ result' = NotReturned
    /\ UNCHANGED <<env, objs, panicked, accessorVars>>

\* Config.Reload
ConfigReloadPrint ==
    /\ AtTop("config", "print")
    /\ out' = Append(out, Printed("config"))
    /\ stack' = SetTop([Top EXCEPT !.pc = "load"])
    /\ UNCHANGED <<env, objs, rets, result, target, pre, prev, calls, panicked, accessorVars>>

ConfigReloadLoad ==
    /\ AtTop("config", "load")
    /\ objs' = [objs EXCEPT !.config = ConfigReload(@, env)]
    /\ out' = Append(out, Wrote("config"))
    /\ stack' = SetTop([Top EXCEPT !.pc = "ret", !.err = NoErr])
    /\ UNCHANGED <<env, rets, result, target, pre, prev, calls, panicked, accessorVars>>

ConfigReloadReturn ==
    /\ AtTop("config", "ret")
    /\ Return("config", Top.err)
    /\ UNCHANGED <<env, objs, out, target, pre, prev, calls, panicked, accessorVars>>

\* DatabaseConfig.Reload
DatabaseConfigReloadPrint ==
    /\ AtTop("dbConfig", "print")
    /\ out' = Append(out, Printed("dbConfig"))
    /\ stack' = SetTop([Top EXCEPT !.pc = "call"])
    /\ UNCHANGED <<env, objs, rets, result, target, pre, prev, calls, panicked, accessorVars>>

DatabaseConfigReloadCall ==
    /\ AtTop("dbConfig", "call")
    /\ CallDelegate("dbConfig")
    /\ UNCHANGED <<env, objs, out, rets, result, target, pre, prev, calls, accessorVars>>

DatabaseConfigReloadLoad ==
    /\ AtTop("dbConfig", "load")
    /\ LET r == DatabaseConfigReload(objs.dbConfig, Top.err, env)
       IN /\ objs' = [objs EXCEPT !.dbConfig = r.obj]
          /\ out' = IF r.wrote THEN Append(out, Wrote("dbConfig")) ELSE out
          /\ stack' = SetTop([Top EXCEPT !.pc = "ret", !.err = r.err])
    /\ UNCHANGED <<env, rets, result, target, pre, prev, calls, panicked, accessorVars>>

DatabaseConfigReloadReturn ==
    /\ AtTop("dbConfig", "ret")
    /\ Return("dbConfig", Top.err)
    /\ UNCHANGED <<env, objs, out, target, pre, prev, calls, panicked, accessorVars>>

\* MessageOfTheDay.Reload
MessageOfTheDayReloadPrint ==
    /\ AtTop("motdConfig", "print")
    /\ out' = Append(out, Printed("motdConfig"))
    /\ stack' = SetTop([Top EXCEPT !.pc = "call"])
    /\ UNCHANGED <<env, objs, rets, result, target, pre, prev, calls, panicked, accessorVars>>

MessageOfTheDayReloadCall ==
    /\ AtTop("motdConfig", "call")
    /\ CallDelegate("motdConfig")
    /\ UNCHANGED <<env, objs, out, rets, result, target, pre, prev, calls, accessorVars>>

MessageOfTheDayReloadLoad ==
    /\ AtTop("motdConfig", "load")
    /\ LET r == MessageOfTheDayReload(objs.motdConfig, Top.err, env)
       IN /\ objs' = [objs EXCEPT !.motdConfig = r.obj]
          /\ out' = IF r.wrote THEN Append(out, Wrote("motdConfig")) ELSE out
          /\ stack' = SetTop([Top EXCEPT !.pc = "ret", !.err = r.err])
    /\ UNCHANGED <<env, rets, result, target, pre, prev, calls, panicked, accessorVars>>

MessageOfTheDayReloadReturn ==
    /\ AtTop("motdConfig", "ret")
    /\ Return("motdConfig", Top.err)
    /\ UNCHANGED <<env, objs, out, target, pre, prev, calls, panicked, accessorVars>>

\* Reload of a Configurer implemented elsewhere: it returns nil or one of its errors
OtherReload ==
    /\ AtTop(Other, "print")
    /\ \E err \in {NoErr} \cup OtherErrs : Return(Other, err)
    /\ UNCHANGED <<env, objs, out, target, pre, prev, calls, panicked, accessorVars>>

Next ==
    \/ \E t \in Layers : CallReload(t)
    \/ ConfigReloadPrint
    \/ ConfigReloadLoad
    \/ ConfigReloadReturn
    \/ DatabaseConfigReloadPrint
    \/ DatabaseConfigReloadCall
    \/ DatabaseConfigReloadLoad
    \/ DatabaseConfigReloadReturn
    \/ MessageOfTheDayReloadPrint
    \/ MessageOfTheDayReloadCall
    \/ MessageOfTheDayReloadLoad
    \/ MessageOfTheDayReloadReturn
    \/ OtherReload

Spec == Init /\ [][Next]_vars

-----------------------------------------------------------------------------
\* Strict build: Config and DatabaseConfig fail on a missing variable instead of
\* filling in a default; MessageOfTheDay has no strict variant.

MissingRequiredValue(k) == k \o " environment variable is not set"

\* Mutant: the fields are assigned as they are read, before the checks
StrictConfigReloadAssignsFirst(c, e) ==
    LET address == Getenv(e, "ADDRESS")
        port == Getenv(e, "PORT")
    IN IF address = ""
       THEN [obj |-> [c EXCEPT !.Address = address, !.Port = port],
             err |-> MissingRequiredValue("ADDRESS"), wrote |-> TRUE]
       ELSE IF port = ""
       THEN [obj |-> [c EXCEPT !.Address = address, !.Port = port],
             err |-> MissingRequiredValue("PORT"), wrote |-> TRUE]
       ELSE [obj |-> [c EXCEPT !.Address = address, !.Port = port],
             err |-> NoErr, wrote |-> TRUE]

\* strict Config.Reload: the first missing variable in declaration order is
\* reported and the fields keep their values; otherwise both fields are set
StrictConfigReload(c, e) ==
    LET address == Getenv(e, "ADDRESS")
        port == Getenv(e, "PORT")
    IN IF address = ""
       THEN [obj |-> c, err |-> MissingRequiredValue("ADDRESS"), wrote |-> FALSE]
       ELSE IF port = ""
       THEN [obj |-> c, err |-> MissingRequiredValue("PORT"), wrote |-> FALSE]
       ELSE [obj |-> [c EXCEPT !.Address = address, !.Port = port],
             err |-> NoErr, wrote |-> TRUE]

\* strict DatabaseConfig.Reload once the delegate returned err
StrictDatabaseConfigReload(d, err, e) ==
    LET dbAddress == Getenv(e, "DB_ADDRESS")
        dbPort == Getenv(e, "DB_PORT")
    IN IF err # NoErr
       THEN [obj |-> d, err |-> err, wrote |-> FALSE]
       ELSE IF dbAddress = ""
       THEN [obj |-> d, err |-> MissingRequiredValue("DB_ADDRESS"), wrote |-> FALSE]
       ELSE IF dbPort = ""
       THEN [obj |-> d, err |-> MissingRequiredValue("DB_PORT"), wrote |-> FALSE]
       ELSE [obj |-> [d EXCEPT !.DBAddress = dbAddress, !.DBPort = dbPort],
             err |-> NoErr, wrote |-> TRUE]

StrictConfigReloadLoad ==
    /\ AtTop("config", "load")
    /\ LET r == StrictConfigReload(objs.config, env)
       IN /\ objs' = [objs EXCEPT !.config = r.obj]
          /\ out' = IF r.wrote THEN Append(out, Wrote("config")) ELSE out
          /\ stack' = SetTop([Top EXCEPT !.pc = "ret", !.err = r.err])
    /\ UNCHANGED <<env, rets, result, target, pre, prev, calls, panicked, accessorVars>>

StrictDatabaseConfigReloadLoad ==
    /\ AtTop("dbConfig", "load")
    /\ LET r == StrictDatabaseConfigReload(objs.dbConfig, Top.err, env)
       IN /\ objs' = [objs EXCEPT !.dbConfig = r.obj]
          /\ out' = IF r.wrote THEN Append(out, Wrote("dbConfig")) ELSE out
          /\ stack' = SetTop([Top EXCEPT !.pc = "ret", !.err = r.err])
    /\ UNCHANGED <<env, rets, result, target, pre, prev, calls, panicked, accessorVars>>

NextStrict ==
    \/ \E t \in Layers : CallReload(t)
    \/ ConfigReloadPrint
    \/ StrictConfigReloadLoad
    \/ ConfigReloadReturn
    \/ DatabaseConfigReloadPrint
    \/ DatabaseConfigReloadCall
    \/ StrictDatabaseConfigReloadLoad
    \/ DatabaseConfigReloadReturn
    \/ MessageOfTheDayReloadPrint
    \/ MessageOfTheDayReloadCall
    \/ MessageOfTheDayReloadLoad
    \/ MessageOfTheDayReloadReturn
    \/ OtherReload

SpecStrict == Init /\ [][NextStrict]_vars

-----------------------------------------------------------------------------
\* Accessor build: Config and DatabaseConfig with GetHost, GetPort,
\* GetDBAddress and GetDBPort. heap[i] is the i-th object constructed and a
\* reference is its index, 0 for nil.

\* number of objects a run constructs
MaxObjs == 3

Addresses == {"http://webapp", "http://mongdb"}
Ports == {8080, 27017}

AccNewConfig(address, port) == [kind |-> "Config", address |-> address, port |-> port]

AccNewDatabaseConfig(config, dbAddress, dbPort) ==
    [kind |-> "DatabaseConfig", config |-> config, dbAddress |-> dbAddress, dbPort |-> dbPort]

\* a call through the Configurer interface: the method of the object's type
RECURSIVE GetHost(_, _)
RECURSIVE GetPort(_, _)
RECURSIVE NilDereference(_, _)

ConfigGetHost(c) == c.address

ConfigGetPort(c) == c.port

\* Mutant: the decorator answers with its own address
DatabaseConfigGetHostOwn(h, d) == d.dbAddress

DatabaseConfigGetHost(h, d) == GetHost(h, d.config)

DatabaseConfigGetPort(h, d) == GetPort(h, d.config)

DatabaseConfigGetDBAddress(d) == d.dbAddress

DatabaseConfigGetDBPort(d) == d.dbPort

GetHost(h, o) ==
    IF h[o].kind = "Config" THEN ConfigGetHost(h[o]) ELSE DatabaseConfigGetHost(h, h[o])

GetPort(h, o) ==
    IF h[o].kind = "Config" THEN ConfigGetPort(h[o]) ELSE DatabaseConfigGetPort(h, h[o])

\* GetHost or GetPort on o ends in a call on the nil Configurer
NilDereference(h, o) ==
    /\ h[o].kind = "DatabaseConfig"
    /\ h[o].config = 0 \/ NilDereference(h, h[o].config)

Answer(op, o, host, port, panic) ==
    [op |-> op, obj |-> o, host |-> host, port |-> port, panic |-> panic]

ConstructConfig(address, port) ==
    /\ Len(heap) < MaxObjs
    /\ heap' = Append(heap, AccNewConfig(address, port))
    /\ ctor' = Append(ctor, [fn |-> "NewConfig", config |-> 0, address |-> address, port |-> port])
    /\ UNCHANGED <<got, reloadVars>>

ConstructDatabaseConfig(config, dbAddress, dbPort) ==
    /\ Len(heap) < MaxObjs
    /\ heap' = Append(heap, AccNewDatabaseConfig(config, dbAddress, dbPort))
    /\ ctor' = Append(ctor, [fn |-> "NewDatabaseConfig", config |-> config,
                             address |-> dbAddress, port |-> dbPort])
    /\ UNCHANGED <<got, reloadVars>>

CallGetHost(o) ==
    /\ got' = IF NilDereference(heap, o)
              THEN Answer("GetHost", o, "", 0, TRUE)
              ELSE Answer("GetHost", o, GetHost(heap, o), 0, FALSE)
    /\ UNCHANGED <<heap, ctor, reloadVars>>

CallGetPort(o) ==
    /\ got' = IF NilDereference(heap, o)
              THEN Answer("GetPort", o, "", 0, TRUE)
              ELSE Answer("GetPort", o, "", GetPort(heap, o), FALSE)
    /\ UNCHANGED <<heap, ctor, reloadVars>>

CallGetDBAddress(o) ==
    /\ heap[o].kind = "DatabaseConfig"
    /\ got' = Answer("GetDBAddress", o, DatabaseConfigGetDBAddress(heap[o]), 0, FALSE)
    /\ UNCHANGED <<heap, ctor, reloadVars>>

CallGetDBPort(o) ==
    /\ heap[o].kind = "DatabaseConfig"
    /\ got' = Answer("GetDBPort", o, "", DatabaseConfigGetDBPort(heap[o]), FALSE)
    /\ UNCHANGED <<heap, ctor, reloadVars>>

\* the reload chain is not part of the accessor build
InitAccessors ==
    /\ InitAccessor
    /\ InitReload
    /\ env = <<>>
    /\ objs = [config |-> NewConfig("http://webapp", "8080"),
               dbConfig |-> NewDatabaseConfig("config", "http://mongodb", "27017"),
               motdConfig |-> NewMessageOfTheDay("dbConfig", "Hello, World!")]

NextAccessors ==
    \/ \E address \in Addresses, port \in Ports : ConstructConfig(address, port)
    \/ \E config \in 0..Len(heap), dbAddress \in Addresses, dbPort \in Ports :
          ConstructDatabaseConfig(config, dbAddress, dbPort)
    \/ \E o \in 1..Len(heap) : CallGetHost(o)
    \/ \E o \in 1..Len(heap) : CallGetPort(o)
    \/ \E o \in 1..Len(heap) : CallGetDBAddress(o)
    \/ \E o \in 1..Len(heap) : CallGetDBPort(o)

SpecAccessors == InitAccessors /\ [][NextAccessors]_vars

-----------------------------------------------------------------------------
\* Properties of the Reload chain (src/main.go)

Last(s) == s[Len(s)]
Reverse(s) == [i \in 1..Len(s) |-> s[Len(s) + 1 - i]]
IsPrefix(s, t) == Len(s) <= Len(t) /\ \A i \in 1..Len(s) : s[i] = t[i]
Args(s) == [i \in 1..Len(s) |-> s[i].arg]

\* the layers whose own fields were assigned in the current call, in order
WriteOrder == Args(SelectSeq(out, LAMBDA x : x.ev = "write"))
\* the lines printed in the current call, in order
PrintedLines == Args(SelectSeq(out, LAMBDA x : x.ev = "print"))

\* a top-level Reload has returned to its caller
Done == calls > 0 /\ stack = <<>> /\ ~panicked

\* the chain under the current target ends in the base Config
Grounded == target # Nil /\ Last(ChainOf(target)) = "config"

FullChain == <<"motdConfig", "dbConfig", "config">>

\* what a field read from variable k must hold after a reload
Expected(k, default) == IF k \in DOMAIN env /\ env[k] # "" THEN env[k] ELSE default

\* C1: one Reload on the outermost layer of a chain that ends in Config assigns
\* the own fields of every layer of the chain exactly once, innermost layer
\* first: at every moment the layers written so far are a prefix of the chain
\* read from the base outward, and when the call has returned they are all of it.
C1_InnerToOuterOnce ==
    Grounded =>
        /\ IsPrefix(WriteOrder, Reverse(ChainOf(target)))
        /\ Done => WriteOrder = Reverse(ChainOf(target))

C1_Witness ==
    /\ Done
    /\ target = "motdConfig"
    /\ ChainOf(target) = FullChain
    /\ WriteOrder = <<"config", "dbConfig", "motdConfig">>
    /\ objs # pre.objs

\* C2: after a successful Reload of the full chain every field equals the value
\* of its variable when that is set and non-empty, and its documented default
\* when the variable is unset or empty, whatever the fields held before.
C2_DefaultFilling ==
    (Done /\ target = "motdConfig" /\ ChainOf(target) = FullChain /\ result = NoErr) =>
        /\ objs.config.Address = Expected("ADDRESS", "http://localhost")
        /\ objs.config.Port = Expected("PORT", "8081")
        /\ objs.dbConfig.DBAddress = Expected("DB_ADDRESS", "http://localhost")
        /\ objs.dbConfig.DBPort = Expected("DB_PORT", "37017")
        /\ objs.motdConfig.MOTD = Expected("MOTD", "Have a Nice Day!")

C2_Witness ==
    /\ Done
    /\ target = "motdConfig"
    /\ ChainOf(target) = FullChain
    /\ result = NoErr
    /\ calls = 1
    /\ pre.objs.config = [Address |-> "http://webapp", Port |-> "8080"]
    /\ DOMAIN env = {"ADDRESS", "PORT", "MOTD"}
    /\ env["ADDRESS"] = "http://svc"
    /\ env["PORT"] = ""
    /\ objs.config = [Address |-> "http://svc", Port |-> "8081"]
    /\ objs.dbConfig.DBPort = "37017"

\* C3: when the delegate of a decorator has returned an error, the decorator's
\* own fields keep their values from before the call, nothing is assigned in
\* the chain, every layer that has returned has returned that same error, and
\* so has the call as a whole once it is done.
C3_ErrorPassedThrough ==
    \A d \in Decorators :
        (/\ target # Nil
         /\ \E i \in 1..Len(ChainOf(target)) : ChainOf(target)[i] = d
         /\ objs[d].Configurer # Nil
         /\ rets[objs[d].Configurer] \notin {NotReturned, NoErr}) =>
            /\ objs[d] = pre.objs[d]
            /\ WriteOrder = <<>>
            /\ rets[d] \in {NotReturned, rets[objs[d].Configurer]}
            /\ Done => result = rets[objs[d].Configurer]

C3_Witness ==
    /\ Done
    /\ target = "motdConfig"
    /\ ChainOf(target) = <<"motdConfig", "dbConfig", Other>>
    /\ rets[Other] \in OtherErrs
    /\ rets["dbConfig"] = rets[Other]
    /\ result = rets[Other]
    /\ pre.objs.motdConfig.MOTD = "Hello, World!"

\* C4: Reload of Config never returns an error, a decorator whose delegate
\* returned no error returns no error, and so a chain that ends in Config
\* never fails.
C4_ReloadTotal ==
    /\ rets["config"] \in {NotReturned, NoErr}
    /\ \A d \in Decorators :
        (/\ objs[d].Configurer # Nil
         /\ rets[d] # NotReturned
         /\ rets[objs[d].Configurer] = NoErr) => rets[d] = NoErr
    /\ (Done /\ Grounded) => result = NoErr

C4_Witness ==
    /\ Done
    /\ target = "motdConfig"
    /\ ChainOf(target) = FullChain
    /\ DOMAIN env = {}
    /\ rets = [o \in Layers \cup {Other} |-> IF o = Other THEN NotReturned ELSE NoErr]
    /\ result = NoErr

\* C5: a second Reload on the same layer of a chain that ends in Config, with
\* the environment as it was, leaves every field of every layer as the first
\* Reload left it, and returns what the first returned.
C5_Idempotent ==
    (Done /\ Grounded /\ calls >= 2 /\ prev.target = target) =>
        /\ objs = prev.objs
        /\ result = prev.result

C5_Witness ==
    /\ Done
    /\ calls = 2
    /\ target = "motdConfig"
    /\ prev.target = "motdConfig"
    /\ ChainOf(target) = FullChain
    /\ objs = prev.objs
    /\ "PORT" \in DOMAIN env
    /\ objs.config.Port = "9090"

\* C8: Reload on a decorator constructed without a delegate does not crash.
C8_StandaloneDecoratorReloads ==
    \A d \in Decorators :
        (objs[d].Configurer = Nil /\ \E i \in 1..Len(stack) : stack[i].obj = d) => ~panicked

\* C9: within one Reload no line is printed after a field has been assigned,
\* and a Reload of the full chain prints the three lines once each, outermost
\* layer first.
C9_PrintsOuterToInnerBeforeWrites ==
    /\ \A i, j \in 1..Len(out) : (i < j /\ out[i].ev = "write") => out[j].ev = "write"
    /\ (target = "motdConfig" /\ ChainOf(target) = FullChain) =>
        /\ IsPrefix(PrintedLines, <<"Reloading message of the day",
                                    "Reloading database config",
                                    "Reloading base config">>)
        /\ WriteOrder # <<>> => Len(PrintedLines) = 3
        /\ Done => Len(PrintedLines) = 3

C9_Witness ==
    /\ target = "motdConfig"
    /\ ChainOf(target) = FullChain
    /\ Len(out) = 4
    /\ out[4] = [ev |-> "write", arg |-> "config"]
    /\ PrintedLines = <<"Reloading message of the day", "Reloading database config",
                        "Reloading base config">>

\* C10: Reload changes no layer outside the chain under the layer it was called
\* on, no delegate reference, and not the environment.
C10_Frame ==
    target # Nil =>
        /\ env = pre.env
        /\ \A d \in Decorators : objs[d].Configurer = pre.objs[d].Configurer
        /\ \A o \in Layers :
            (\A i \in 1..Len(ChainOf(target)) : ChainOf(target)[i] # o) => objs[o] = pre.objs[o]

C10_Witness ==
    /\ Done
    /\ target = "dbConfig"
    /\ ChainOf("motdConfig") = FullChain
    /\ objs.config # pre.objs.config
    /\ objs.dbConfig # pre.objs.dbConfig
    /\ objs.motdConfig = pre.objs.motdConfig
    /\ objs.motdConfig.MOTD = "Hello, World!"
-----------------------------------------------------------------------------
\* Properties of the strict build

Unset(k) == k \notin DOMAIN env \/ env[k] = ""

InChain(o) == \E i \in 1..Len(ChainOf(target)) : ChainOf(target)[i] = o

\* C7: in the strict build a Reload that finds a required variable unset or
\* empty returns the error naming the first such variable of the layer and
\* leaves that layer's fields as they were before the call; every layer outward
\* of a failed layer keeps its fields and returns the same error; a layer that
\* completed before the failure keeps the values it read.
C7_StrictNoPartialUpdate ==
    /\ rets["config"] # NotReturned =>
        IF Unset("ADDRESS")
        THEN /\ rets["config"] = "ADDRESS environment variable is not set"
             /\ objs.config = pre.objs.config
        ELSE IF Unset("PORT")
        THEN /\ rets["config"] = "PORT environment variable is not set"
             /\ objs.config = pre.objs.config
        ELSE /\ rets["config"] = NoErr
             /\ objs.config = [Address |-> env["ADDRESS"], Port |-> env["PORT"]]
    /\ (/\ rets["dbConfig"] # NotReturned
        /\ objs.dbConfig.Configurer # Nil
        /\ rets[objs.dbConfig.Configurer] = NoErr) =>
        IF Unset("DB_ADDRESS")
        THEN /\ rets["dbConfig"] = "DB_ADDRESS environment variable is not set"
             /\ objs.dbConfig = pre.objs.dbConfig
        ELSE IF Unset("DB_PORT")
        THEN /\ rets["dbConfig"] = "DB_PORT environment variable is not set"
             /\ objs.dbConfig = pre.objs.dbConfig
        ELSE /\ rets["dbConfig"] = NoErr
             /\ objs.dbConfig.DBAddress = env["DB_ADDRESS"]
             /\ objs.dbConfig.DBPort = env["DB_PORT"]
    /\ \A d \in Decorators :
        (/\ target # Nil
         /\ InChain(d)
         /\ objs[d].Configurer # Nil
         /\ rets[objs[d].Configurer] \notin {NotReturned, NoErr}) =>
            /\ objs[d] = pre.objs[d]
            /\ rets[d] \in {NotReturned, rets[objs[d].Configurer]}
            /\ Done => result = rets[objs[d].Configurer]

C7_Witness ==
    /\ Done
    /\ calls = 1
    /\ target = "motdConfig"
    /\ ChainOf(target) = FullChain
    /\ DOMAIN env = {"ADDRESS", "PORT", "DB_ADDRESS"}
    /\ env["ADDRESS"] = "http://svc"
    /\ env["PORT"] = "9090"
    /\ env["DB_ADDRESS"] = ""
    /\ result = "DB_ADDRESS environment variable is not set"
    /\ objs.config = [Address |-> "http://svc", Port |-> "9090"]
    /\ objs.dbConfig.DBAddress = "http://mongodb"
    /\ objs.motdConfig.MOTD = "Hello, World!"

-----------------------------------------------------------------------------
\* Properties of the accessor build

\* C6: for every DatabaseConfig d constructed over a Config c, GetHost and
\* GetPort on d return what they return on c, which is what c was constructed
\* with, and GetDBAddress and GetDBPort on d return what d was constructed with.
C6_DelegatedAccessors ==
    \A d \in 1..Len(heap) :
        (/\ heap[d].kind = "DatabaseConfig"
         /\ heap[d].config # 0
         /\ heap[heap[d].config].kind = "Config") =>
            LET c == heap[d].config
            IN /\ GetHost(heap, d) = GetHost(heap, c)
               /\ GetHost(heap, d) = ctor[c].address
               /\ GetPort(heap, d) = GetPort(heap, c)
               /\ GetPort(heap, d) = ctor[c].port
               /\ DatabaseConfigGetDBAddress(heap[d]) = ctor[d].address
               /\ DatabaseConfigGetDBPort(heap[d]) = ctor[d].port
               /\ got.obj = d =>
                    /\ ~got.panic
                    /\ got.op = "GetHost" => got.host = ctor[c].address
                    /\ got.op = "GetPort" => got.port = ctor[c].port
                    /\ got.op = "GetDBAddress" => got.host = ctor[d].address
                    /\ got.op = "GetDBPort" => got.port = ctor[d].port

C6_Witness ==
    /\ Len(heap) >= 2
    /\ ctor[1] = [fn |-> "NewConfig", config |-> 0, address |-> "http://webapp", port |-> 8080]
    /\ ctor[2] = [fn |-> "NewDatabaseConfig", config |-> 1, address |-> "http://mongdb",
                  port |-> 27017]
    /\ got = [op |-> "GetHost", obj |-> 2, host |-> "http://webapp", port |-> 0, panic |-> FALSE]

====
